---- MODULE Spec2Model ----
(***************************************************************************)
(* dir2md / md2dir: the markdown code-block serializer (default_formatter), *)
(* the parser (default_parser), the unclosed-block policy of md2dir and    *)
(* the line-specification resolver of dir2md.                              *)
(*                                                                         *)
(* A Python str is a sequence of one-character strings, so that            *)
(* splitlines, strip, startswith, join and the regular expression of the   *)
(* formatter are computed character by character, as the code does.        *)
(* Python indices are kept 0-based; lines[i] of the code is lines[i + 1].  *)
(* token_count (tiktoken) is display only and is left out of TextFile.     *)
(***************************************************************************)
EXTENDS Integers, Sequences, FiniteSets, TLC

(* ------------------------------------------------------------------ *)
(* Python str helpers                                                  *)
(* ------------------------------------------------------------------ *)

NL == "\n"

\* The backtick, which a TLA+ string cannot hold.
BT == "BT"

Min(a, b) == IF a < b THEN a ELSE b

Max(a, b) == IF a > b THEN a ELSE b

\* seq[a:b] for integers a and b, with Python's clamping and negative
\* indices counted from the end.
PySlice(seq, a, b) ==
    LET n  == Len(seq)
        lo == IF a < 0 THEN Max(n + a, 0) ELSE Min(a, n)
        hi == IF b < 0 THEN Max(n + b, 0) ELSE Min(b, n)
    IN  SubSeq(seq, lo + 1, hi)

\* str.startswith(prefix)
StartsWith(str, prefix) ==
    /\ Len(prefix) <= Len(str)
    /\ SubSeq(str, 1, Len(prefix)) = prefix

\* str.endswith(suffix)
EndsWith(str, suffix) ==
    /\ Len(suffix) <= Len(str)
    /\ SubSeq(str, Len(str) - Len(suffix) + 1, Len(str)) = suffix

\* Characters that str.strip() removes and that \s matches.
IsSpace(c) == c \in {" ", NL, "\t"}

RECURSIVE lstrip(_)
lstrip(str) ==
    IF str # <<>> /\ IsSpace(Head(str)) THEN lstrip(Tail(str)) ELSE str

RECURSIVE rstrip(_)
rstrip(str) ==
    IF str # <<>> /\ IsSpace(str[Len(str)])
    THEN rstrip(SubSeq(str, 1, Len(str) - 1))
    ELSE str

\* str.strip()
strip(str) == rstrip(lstrip(str))

\* line.lstrip(backtick)
RECURSIVE lstrip_ticks(_)
lstrip_ticks(str) ==
    IF str # <<>> /\ Head(str) = BT THEN lstrip_ticks(Tail(str)) ELSE str

RECURSIVE splitlinesR(_, _, _, _)
splitlinesR(s, k, cur, acc) ==
    IF k > Len(s)
    THEN IF cur = <<>> THEN acc ELSE Append(acc, cur)
    ELSE IF s[k] = NL
         THEN splitlinesR(s, k + 1, <<>>, Append(acc, cur))
         ELSE splitlinesR(s, k + 1, Append(cur, s[k]), acc)

\* str.splitlines(): no empty last line after a final newline.
splitlines(s) == splitlinesR(s, 1, <<>>, <<>>)

RECURSIVE splitR(_, _, _, _, _)
splitR(s, sep, k, cur, acc) ==
    IF k > Len(s)
    THEN Append(acc, cur)
    ELSE IF s[k] = sep
         THEN splitR(s, sep, k + 1, <<>>, Append(acc, cur))
         ELSE splitR(s, sep, k + 1, Append(cur, s[k]), acc)

\* str.split(sep) for a one-character sep: "".split(" ") is [""].
split(s, sep) == splitR(s, sep, 1, <<>>, <<>>)

\* sep.join(strs)
RECURSIVE join(_, _)
join(sep, strs) ==
    IF strs = <<>> THEN <<>>
    ELSE IF Len(strs) = 1 THEN strs[1]
    ELSE strs[1] \o sep \o join(sep, Tail(strs))

\* "".join(strs)
RECURSIVE concat(_)
concat(strs) == IF strs = <<>> THEN <<>> ELSE Head(strs) \o concat(Tail(strs))

(* ------------------------------------------------------------------ *)
(* Language tables                                                     *)
(* ------------------------------------------------------------------ *)

python == <<"p", "y", "t", "h", "o", "n">>

rust == <<"r", "u", "s", "t">>

\* str.lower() on the characters the model uses.
lower_char(c) == CASE c = "P" -> "p" [] c = "Y" -> "y" [] OTHER -> c

lower(str) == [k \in 1..Len(str) |-> lower_char(str[k])]

\* Index (1-based) of the last occurrence of c in str, 0 when absent.
RECURSIVE rfind(_, _, _)
rfind(str, c, k) ==
    IF k = 0 THEN 0 ELSE IF str[k] = c THEN k ELSE rfind(str, c, k - 1)

\* os.path.splitext(path)[1]: from the last dot of the last path component,
\* unless only dots precede it in that component.
splitext_ext(path) ==
    LET sl   == rfind(path, "/", Len(path))
        dot  == rfind(path, ".", Len(path))
        lead == \A k \in (sl + 1)..(dot - 1) : path[k] = "."
    IN  IF dot <= sl \/ lead THEN <<>> ELSE SubSeq(path, dot, Len(path))

infer_language(path) ==
    LET ext == lower(splitext_ext(path))
    IN  IF ext = <<".", "p", "y">> THEN python
        ELSE IF ext = <<".", "r", "s">> THEN rust
        ELSE <<>>

comment_prefix_for_language(language) ==
    IF language = python THEN <<"#">>
    ELSE IF language = rust THEN <<"/", "/">>
    ELSE <<>>

(* ------------------------------------------------------------------ *)
(* default_formatter                                                   *)
(* ------------------------------------------------------------------ *)

TextFile(text, path) == [text |-> text, path |-> path]

\* re.search(rf"\n\s*{ticks}", text): a newline, any whitespace, the ticks.
re_search_fence(text, ticks) ==
    \E p \in 1..Len(text) :
        /\ text[p] = NL
        /\ \E q \in (p + 1)..(Len(text) - Len(ticks) + 1) :
               /\ \A k \in (p + 1)..(q - 1) : IsSpace(text[k])
               /\ SubSeq(text, q, q + Len(ticks) - 1) = ticks

\* ticks = "```"; while re.search(...): ticks += "`"
RECURSIVE choose_ticks(_, _)
choose_ticks(text, ticks) ==
    IF re_search_fence(text, ticks) THEN choose_ticks(text, ticks \o <<BT>>) ELSE ticks

\* default_formatter with include_token_count = False.
default_formatter(text_file, path_location) ==
    LET ticks    == choose_ticks(text_file.text, <<BT, BT, BT>>)
        language == infer_language(text_file.path)
        comment_prefix == comment_prefix_for_language(language)
    IN  IF path_location = "above"
        THEN text_file.path \o <<NL, NL>>
             \o ticks \o language \o <<NL>>
             \o text_file.text
             \o ticks \o <<NL, NL>>
        ELSE ticks \o language \o <<NL>>
             \o comment_prefix \o <<" ">> \o text_file.path \o <<NL>>
             \o text_file.text
             \o ticks \o <<NL, NL>>

(* ------------------------------------------------------------------ *)
(* default_parser                                                      *)
(* ------------------------------------------------------------------ *)

\* path_replacement_field as the text before and after its one slot:
\* "{}" is [pre |-> "", post |-> ""].
DefaultField == [pre |-> <<>>, post |-> <<>>]

\* path_replacement_field.format(x)
field_format(field, x) == field.pre \o x \o field.post

_find_path_above(text, field) ==
    LET lines == splitlines(text)
    IN  IF lines # <<>> /\ field_format(field, strip(lines[Len(lines)])) # <<>>
        THEN strip(lines[Len(lines)])
        ELSE <<>>

\* Returns the pair (path, code) as a record.
_find_path_below(code, language, field) ==
    LET comment_prefix == comment_prefix_for_language(language)
        lines == splitlines(code)
    IN  IF lines # <<>> /\ StartsWith(lines[1], comment_prefix \o <<" ">> \o field.pre)
        THEN [path |-> strip(PySlice(lines[1], Len(comment_prefix) + 1, Len(lines[1]))),
              code |-> join(<<NL>>, Tail(lines))]
        ELSE [path |-> <<>>, code |-> code]

\* line[:len(line) - len(line.lstrip(backtick))]
fence_ticks(line) == PySlice(line, 0, Len(line) - Len(lstrip_ticks(line)))

\* rest.split(" ")[0] with rest = line[len(ticks):].strip()
fence_language(line) ==
    LET ticks == fence_ticks(line)
        rest  == strip(PySlice(line, Len(ticks), Len(line)))
        attributes == split(rest, " ")
    IN  IF Len(attributes) > 0 THEN attributes[1] ELSE <<>>

\* The inner loop leaving at the first line that starts with three backticks,
\* whatever the length of the opening run.
RECURSIVE scan_close_any_fence(_, _, _)
scan_close_any_fence(lines, i, ticks) ==
    IF i >= Len(lines) THEN i
    ELSE IF StartsWith(lines[i + 1], <<BT, BT, BT>>) THEN i + 1
    ELSE scan_close_any_fence(lines, i + 1, ticks)

\* The inner while True loop: i on leaving it.
RECURSIVE scan_close(_, _, _)
scan_close(lines, i, ticks) ==
    IF i >= Len(lines) THEN i
    ELSE IF StartsWith(lines[i + 1], ticks) THEN i + 1
    ELSE scan_close(lines, i + 1, ticks)

\* resolve_path without the fallback of "above" to the first inner line.
resolve_path_no_fallback(lines, start, code, language, field, path_location) ==
    IF path_location = "above" /\ start > 0
    THEN [path |-> _find_path_above(lines[start], field), code |-> code]
    ELSE LET below == _find_path_below(code, language, field)
         IN  IF below.path = <<>> /\ start > 0
             THEN [path |-> _find_path_above(lines[start], field), code |-> below.code]
             ELSE below

\* Path resolution of one block: the pair (path, code).
resolve_path(lines, start, code, language, field, path_location) ==
    IF path_location = "above" /\ start > 0
    THEN LET path == _find_path_above(lines[start], field)
         IN  IF path = <<>>
             THEN _find_path_below(code, language, field)
             ELSE [path |-> path, code |-> code]
    ELSE LET below == _find_path_below(code, language, field)
         IN  IF below.path = <<>> /\ start > 0
             THEN [path |-> _find_path_above(lines[start], field), code |-> below.code]
             ELSE below

\* _format_error_message indexes code_block.splitlines()[0].
error_raised(code) ==
    IF splitlines(code) = <<>> THEN "IndexError" ELSE "ValueError"

\* The outer while loop from index i with the locals in st; exc is the
\* exception that left the function, "none" when it returned.
RECURSIVE parse_loop(_, _, _, _, _, _)
parse_loop(lines, i, st, field, path_location, ignore_missing_path) ==
    IF i >= Len(lines) THEN st
    ELSE IF ~StartsWith(lines[i + 1], <<BT, BT, BT>>)
    THEN parse_loop(lines, i + 1, st, field, path_location, ignore_missing_path)
    ELSE
      LET start    == i
          line     == lines[i + 1]
          ticks    == fence_ticks(line)
          language == fence_language(line)
          j        == scan_close(lines, i + 1, ticks)
          code     == join(<<NL>>, PySlice(lines, start + 1, j - 1))
          res      == resolve_path(lines, start, code, language, field, path_location)
          missing  == res.path = <<>>
          unclosed == /\ missing
                      /\ ignore_missing_path
                      /\ j = Len(lines)
                      /\ ~StartsWith(lines[j], ticks)
      IN  IF missing /\ ~ignore_missing_path
          THEN [st EXCEPT !.missing_path_count = @ + 1,
                          !.exc = error_raised(res.code)]
          ELSE parse_loop(lines, j,
                 [st EXCEPT !.missing_path_count = IF missing THEN @ + 1 ELSE @,
                            !.last_code_block_is_unclosed = @ \/ unclosed,
                            !.code_blocks = Append(@, TextFile(res.code, res.path))],
                 field, path_location, ignore_missing_path)

parse_locals(s, field, path_location, ignore_missing_path) ==
    parse_loop(splitlines(s), 0,
               [code_blocks |-> <<>>, missing_path_count |-> 0,
                last_code_block_is_unclosed |-> FALSE, exc |-> "none"],
               field, path_location, ignore_missing_path)

\* What the caller of default_parser gets: the ParseResult, or the exception.
default_parser(s, field, path_location, ignore_missing_path) ==
    LET st == parse_locals(s, field, path_location, ignore_missing_path)
    IN  IF st.exc # "none"
        THEN [exc |-> st.exc, code_blocks |-> <<>>,
              last_code_block_is_unclosed |-> FALSE]
        ELSE [exc |-> "none", code_blocks |-> st.code_blocks,
              last_code_block_is_unclosed |-> st.last_code_block_is_unclosed]

(* ------------------------------------------------------------------ *)
(* md2dir and save_dir                                                 *)
(* ------------------------------------------------------------------ *)

\* save_dir with yes = True, into an existing output directory: the files
\* written, in order, and the exception that stopped the loop.  A record
\* with an empty path names the output directory itself, and open() of a
\* directory raises IsADirectoryError.
RECURSIVE save_dir(_, _)
save_dir(files, done) ==
    IF files = <<>> THEN [exc |-> "none", written |-> done]
    ELSE IF Head(files).path = <<>>
    THEN [exc |-> "IsADirectoryError", written |-> done]
    ELSE save_dir(Tail(files), Append(done, Head(files)))

\* The match on on_unclosed: the records handed on, or the exception.
\* TextFile is a NamedTuple, so assigning code_blocks[-1].text raises
\* AttributeError before anything is changed.
apply_on_unclosed(code_blocks, on_unclosed) ==
    CASE on_unclosed = "proceed" -> [exc |-> "none", code_blocks |-> code_blocks]
      [] on_unclosed = "omit_last_line" ->
            [exc |-> "AttributeError", code_blocks |-> code_blocks]
      [] on_unclosed = "skip" ->
            [exc |-> "none",
             code_blocks |-> SubSeq(code_blocks, 1, Len(code_blocks) - 1)]
      [] on_unclosed = "error" -> [exc |-> "ValueError", code_blocks |-> code_blocks]
      [] OTHER -> [exc |-> "ValueError", code_blocks |-> code_blocks]

\* md2dir after its call of default_parser: the exception that left it
\* ("none" when it returned) and the files save_dir wrote.
md2dir_rest(parse_result, on_unclosed) ==
    IF parse_result.exc # "none"
    THEN [exc |-> parse_result.exc, written |-> <<>>, parse_result |-> parse_result]
    ELSE LET u == IF parse_result.last_code_block_is_unclosed
                  THEN apply_on_unclosed(parse_result.code_blocks, on_unclosed)
                  ELSE [exc |-> "none", code_blocks |-> parse_result.code_blocks]
             w == save_dir(u.code_blocks, <<>>)
         IN  IF u.exc # "none"
             THEN [exc |-> u.exc, written |-> <<>>, parse_result |-> parse_result]
             ELSE [exc |-> w.exc, written |-> w.written, parse_result |-> parse_result]

\* md2dir writing the blocks parsed before default_parser raised.
md2dir_writes_before_raise(text, field, path_location, ignore_missing_path, on_unclosed) ==
    LET st == parse_locals(text, field, path_location, ignore_missing_path)
    IN  IF st.exc # "none"
        THEN [exc |-> st.exc, written |-> save_dir(st.code_blocks, <<>>).written,
              parse_result |-> [exc |-> st.exc, code_blocks |-> <<>>,
                                last_code_block_is_unclosed |-> FALSE]]
        ELSE md2dir_rest([exc |-> "none", code_blocks |-> st.code_blocks,
                          last_code_block_is_unclosed |-> st.last_code_block_is_unclosed],
                         on_unclosed)

\* md2dir(text, output_dir, yes = True, ...)
md2dir(text, field, path_location, ignore_missing_path, on_unclosed) ==
    md2dir_rest(default_parser(text, field, path_location, ignore_missing_path),
                on_unclosed)

(* ------------------------------------------------------------------ *)
(* parse_line_specification and dir2md                                 *)
(* ------------------------------------------------------------------ *)

\* A bound of a slice: None, an int, or (from slice(*result)) a slice object.
NoneArg == [t |-> "None", v |-> 0]

IntArg(i) == [t |-> "int", v |-> i]

ObjectArg == [t |-> "slice", v |-> 0]

\* A term of a line specification as Python evaluates it: the int i, or
\* slice(a, b, c).
IntTerm(i) == [kind |-> "int", a |-> IntArg(i), b |-> NoneArg, c |-> NoneArg]

SliceTerm(a, b) == [kind |-> "slice", a |-> a, b |-> b, c |-> NoneArg]

\* The argument a term makes to slice(...): an int, or a slice object.
slice_arg(term) == IF term.kind = "int" THEN term.a ELSE ObjectArg

\* eval(f"x{line_spec}") and the isinstance cases.  line_spec.form is
\* "single" for "[t1, ..., tk]" and "double" for "[[t1, ..., tk]]"; the
\* result is the list returned, or the exception raised.
parse_line_specification(spec) ==
    LET k == Len(spec.terms)
    IN  IF spec.form = "single"
        THEN IF k = 0 THEN [exc |-> "ValueError", items |-> <<>>]
             ELSE IF k = 1 THEN [exc |-> "none", items |-> spec.terms]
             ELSE IF k = 2
             THEN [exc |-> "none",
                   items |-> <<[kind |-> "slice", a |-> slice_arg(spec.terms[1]),
                                b |-> slice_arg(spec.terms[2]), c |-> NoneArg]>>]
             ELSE IF k = 3
             THEN [exc |-> "none",
                   items |-> <<[kind |-> "slice", a |-> slice_arg(spec.terms[1]),
                                b |-> slice_arg(spec.terms[2]),
                                c |-> slice_arg(spec.terms[3])]>>]
             ELSE [exc |-> "ValueError", items |-> <<>>]
        ELSE IF \E j \in 1..k : spec.terms[j].kind = "slice"
             THEN [exc |-> "ValueError", items |-> <<>>]
             ELSE [exc |-> "none", items |-> spec.terms]

\* One bound of a slice, clamped as slice.indices(n) does.
slice_bound(opt, n, step, dflt_pos, dflt_neg) ==
    IF opt.t = "None" THEN (IF step > 0 THEN dflt_pos ELSE dflt_neg)
    ELSE LET v == opt.v
         IN  IF v < 0
             THEN (IF n + v < 0 THEN (IF step > 0 THEN 0 ELSE -1) ELSE n + v)
             ELSE (IF v >= n THEN (IF step > 0 THEN n ELSE n - 1) ELSE v)

RECURSIVE slice_range(_, _, _)
slice_range(i, stop, step) ==
    IF (step > 0 /\ i >= stop) \/ (step < 0 /\ i <= stop) THEN <<>>
    ELSE <<i>> \o slice_range(i + step, stop, step)

\* lines[idx] for a slice idx: the lines selected, or the exception (the
\* step is converted first, then start and stop).
index_slice(lines, idx) ==
    IF idx.c.t = "slice"
    THEN [exc |-> "TypeError", lines |-> <<>>]
    ELSE IF idx.c = IntArg(0)
    THEN [exc |-> "ValueError", lines |-> <<>>]
    ELSE IF "slice" \in {idx.a.t, idx.b.t}
    THEN [exc |-> "TypeError", lines |-> <<>>]
    ELSE LET n     == Len(lines)
             step  == IF idx.c.t = "None" THEN 1 ELSE idx.c.v
             start == slice_bound(idx.a, n, step, 0, n - 1)
             stop  == slice_bound(idx.b, n, step, n, -1)
             at    == slice_range(start, stop, step)
         IN  [exc |-> "none", lines |-> [j \in 1..Len(at) |-> lines[at[j] + 1]]]

\* The loop over indices_or_slices: an index out of range is skipped.
RECURSIVE select_lines(_, _, _)
select_lines(lines, items, selected) ==
    IF items = <<>> THEN [exc |-> "none", lines |-> selected]
    ELSE LET idx == Head(items)
         IN  IF idx.kind = "slice"
             THEN LET r == index_slice(lines, idx)
                  IN  IF r.exc # "none" THEN r
                      ELSE select_lines(lines, Tail(items), selected \o r.lines)
             ELSE LET i == idx.a.v
                  IN  IF i >= Len(lines) \/ i < -Len(lines)
                      THEN select_lines(lines, Tail(items), selected)
                      ELSE select_lines(lines, Tail(items),
                             Append(selected,
                                    lines[(IF i < 0 THEN Len(lines) + i ELSE i) + 1]))

\* if not code.endswith("\n"): code += "\n"
normalize_newline(text) == IF EndsWith(text, <<NL>>) THEN text ELSE text \o <<NL>>

\* dir2md for one existing file given as file_path + line_spec, no_glob =
\* True; lines is code_file.readlines().  The text embedded, the document
\* returned, or the exception.
dir2md(file_path, lines, spec, path_location) ==
    LET parsed == IF spec.form = "none"
                  THEN [exc |-> "none", items |-> <<>>]
                  ELSE parse_line_specification(spec)
        chosen == IF spec.form = "none"
                  THEN [exc |-> "none", lines |-> lines]
                  ELSE select_lines(lines, parsed.items, <<>>)
        text   == normalize_newline(concat(chosen.lines))
    IN  IF parsed.exc # "none"
        THEN [exc |-> parsed.exc, code |-> <<>>, output |-> <<>>]
        ELSE IF chosen.exc # "none"
        THEN [exc |-> chosen.exc, code |-> <<>>, output |-> <<>>]
        ELSE [exc |-> "none", code |-> text,
              output |-> rstrip(default_formatter(TextFile(text, file_path),
                                                  path_location))]

(* ------------------------------------------------------------------ *)
(* State                                                               *)
(* ------------------------------------------------------------------ *)

VARIABLES
    s,                    \* the markdown document (text of md2dir, s of default_parser)
    phase,                \* "records", "blocks", "spec", "input", "parsed", "written", "embedded"
    path_location,        \* argument of the call that ran
    ignore_missing_path,  \* argument of the call that ran
    on_unclosed,          \* argument of md2dir
    result,               \* what default_parser gave its caller
    exc,                  \* the exception that left the call, "none" if it returned
    written,              \* the files save_dir wrote, in order
    records,              \* the TextFile records handed to default_formatter
    format_location,      \* path_location given to default_formatter
    line_spec,            \* the bracketed suffix of a file argument of dir2md
    code                  \* the text dir2md embeds for that file argument

vars == <<s, phase, path_location, ignore_missing_path, on_unclosed, result, exc,
          written, records, format_location, line_spec, code>>

\* Longest document, in lines.
MaxLines == 5

FENCE3 == <<BT, BT, BT>>

FENCE4 == <<BT, BT, BT, BT>>

LINE_fence_python == FENCE3 \o python

LINE_path_comment == <<"#", " ", "a", ".", "p", "y">>

LINE_path == <<"a", ".", "p", "y">>

\* The lines a document for default_parser is made of; LINE_path is a path
\* line above a fence and a plain line of code inside one.
DocLines == {FENCE3, LINE_fence_python, LINE_path_comment, LINE_path, <<>>}

\* The lines a document for md2dir is made of.
MdLines == {FENCE3, LINE_fence_python, LINE_path_comment, <<>>}

PathLocations == {"above", "below"}

OnUnclosed == {"proceed", "omit_last_line", "skip", "error"}

NoResult == [exc |-> "none", code_blocks |-> <<>>, last_code_block_is_unclosed |-> FALSE]

NoSpec == [form |-> "none", terms |-> <<>>]

InitCommon ==
    /\ s = <<>>
    /\ path_location = "below"
    /\ ignore_missing_path = FALSE
    /\ on_unclosed = "omit_last_line"
    /\ result = NoResult
    /\ exc = "none"
    /\ written = <<>>
    /\ records = <<>>
    /\ format_location = "below"
    /\ line_spec = NoSpec
    /\ code = <<>>

Init ==
    /\ InitCommon
    /\ phase = "input"

\* The document gains one line.
AppendLine(l) ==
    /\ phase = "input"
    /\ Len(splitlines(s)) < MaxLines
    /\ s' = s \o l \o <<NL>>
    /\ UNCHANGED <<phase, path_location, ignore_missing_path, on_unclosed, result,
                   exc, written, records, format_location, line_spec, code>>

\* default_parser(s, path_location = loc, ignore_missing_path = ign)
Parse(loc, ign) ==
    /\ phase = "input"
    /\ LET r == default_parser(s, DefaultField, loc, ign)
       IN  /\ result' = r
           /\ exc' = r.exc
    /\ phase' = "parsed"
    /\ path_location' = loc
    /\ ignore_missing_path' = ign
    /\ UNCHANGED <<s, on_unclosed, written, records, format_location, line_spec, code>>

\* md2dir(s, output_dir, yes = True, path_location = loc,
\*        ignore_missing_path = ign, on_unclosed = pol)
Md2dir(loc, ign, pol) ==
    /\ phase = "input"
    /\ LET r == md2dir(s, DefaultField, loc, ign, pol)
       IN  /\ result' = r.parse_result
           /\ exc' = r.exc
           /\ written' = r.written
    /\ phase' = "written"
    /\ path_location' = loc
    /\ ignore_missing_path' = ign
    /\ on_unclosed' = pol
    /\ UNCHANGED <<s, records, format_location, line_spec, code>>

\* Documents of free lines, parsed by default_parser.
Next ==
    \/ \E l \in DocLines : AppendLine(l)
    \/ \E loc \in PathLocations, ign \in BOOLEAN : Parse(loc, ign)

Spec == Init /\ [][Next]_vars

\* Documents of free lines, converted by md2dir.
NextMd ==
    \/ \E l \in MdLines : AppendLine(l)
    \/ \E loc \in PathLocations, ign \in BOOLEAN, pol \in OnUnclosed : Md2dir(loc, ign, pol)

SpecMd == Init /\ [][NextMd]_vars

\* Lines of documents with fences of different lengths: fences of three and
\* four backticks, a fence with a language, a path comment, a body line.
FenceLines == {FENCE3, FENCE4, LINE_fence_python, LINE_path_comment, <<"x">>}

\* Documents of fence lines of different lengths, parsed by default_parser.
NextFence ==
    \/ \E l \in FenceLines : AppendLine(l)
    \/ \E loc \in PathLocations, ign \in BOOLEAN : Parse(loc, ign)

SpecFence == Init /\ [][NextFence]_vars

\* Most records in one serialized document.
MaxRecords == 2

\* Most lines in the text of one record.
MaxTextLines == 2

PATH_py == <<"a", ".", "p", "y">>

PATH_rs == <<"b", ".", "r", "s">>

PATH_plain == <<"c">>

RecordPaths == {PATH_py, PATH_rs, PATH_plain}

\* The lines a record's text is made of: code, fences of three and four
\* backticks, an indented fence, an empty line.
TextLines == {<<"x">>, FENCE3, FENCE4, <<" ">> \o FENCE3, <<>>}

\* The lines, each ended by a newline.
RECURSIVE text_of(_)
text_of(lines) == IF lines = <<>> THEN <<>> ELSE Head(lines) \o <<NL>> \o text_of(Tail(lines))

\* Texts of one to MaxTextLines lines, each ending in a newline.
Texts == {text_of(ls) : ls \in UNION {[1..n -> TextLines] : n \in 1..MaxTextLines}}

InitRT ==
    /\ InitCommon
    /\ phase = "records"

\* The caller adds a record with a path no earlier record has.
AddRecord(path, text) ==
    /\ phase = "records"
    /\ Len(records) < MaxRecords
    /\ \A k \in 1..Len(records) : records[k].path # path
    /\ records' = Append(records, TextFile(text, path))
    /\ UNCHANGED <<s, phase, path_location, ignore_missing_path, on_unclosed, result,
                   exc, written, format_location, line_spec, code>>

\* "".join(default_formatter(record, path_location = loc) for each record)
Format(loc) ==
    /\ phase = "records"
    /\ records # <<>>
    /\ s' = concat([k \in 1..Len(records) |-> default_formatter(records[k], loc)])
    /\ format_location' = loc
    /\ phase' = "input"
    /\ UNCHANGED <<path_location, ignore_missing_path, on_unclosed, result, exc,
                   written, records, line_spec, code>>

\* Records serialized by default_formatter, then parsed by default_parser.
NextRT ==
    \/ \E path \in RecordPaths, text \in Texts : AddRecord(path, text)
    \/ \E loc \in PathLocations : Format(loc)
    \/ \E loc \in PathLocations, ign \in BOOLEAN : Parse(loc, ign)

SpecRT == InitRT /\ [][NextRT]_vars

\* Most fenced blocks in one document of blocks.
MaxBlocks == 2

\* Most lines in the body of one block.
MaxBodyLines == 3

BodyLines == {<<"x">>, <<>>}

Bodies == UNION {[1..n -> BodyLines] : n \in 0..MaxBodyLines}

Languages == {python, rust}

PathOf(language) == IF language = python THEN PATH_py ELSE PATH_rs

InitBlocks ==
    /\ InitCommon
    /\ phase = "blocks"

\* The document gains a closed block: the fence with its language, the
\* commented path, the body, the closing fence and, if blank, an empty line
\* (also before the first block, as in the document of test_default_parser).
\* records keeps what the block holds: its path and its body.
AddBlock(language, body, blank) ==
    /\ phase = "blocks"
    /\ Len(records) < MaxBlocks
    /\ s' = (IF records = <<>> /\ blank THEN <<NL>> ELSE <<>>)
            \o s \o FENCE3 \o language \o <<NL>>
            \o comment_prefix_for_language(language) \o <<" ">> \o PathOf(language) \o <<NL>>
            \o text_of(body)
            \o FENCE3 \o <<NL>>
            \o (IF blank THEN <<NL>> ELSE <<>>)
    /\ records' = Append(records, TextFile(join(<<NL>>, body), PathOf(language)))
    /\ UNCHANGED <<phase, path_location, ignore_missing_path, on_unclosed, result,
                   exc, written, format_location, line_spec, code>>

\* default_parser(s) with its default arguments.
ParseDefault ==
    /\ phase = "blocks"
    /\ records # <<>>
    /\ LET r == default_parser(s, DefaultField, "below", FALSE)
       IN  /\ result' = r
           /\ exc' = r.exc
    /\ phase' = "parsed"
    /\ UNCHANGED <<s, path_location, ignore_missing_path, on_unclosed, written,
                   records, format_location, line_spec, code>>

\* Documents of closed python and rust blocks with commented paths.
NextBlocks ==
    \/ \E language \in Languages, body \in Bodies, blank \in BOOLEAN :
           AddBlock(language, body, blank)
    \/ ParseDefault

SpecBlocks == InitBlocks /\ [][NextBlocks]_vars

\* Lines of the file dir2md reads.
NFileLines == 10

\* Most terms in a line specification.
MaxTerms == 2

DIGITS == <<"0", "1", "2", "3", "4", "5", "6", "7", "8", "9", "a", "b">>

\* code_file.readlines(): line k is its 0-based index and a newline.
FileLines == [k \in 1..NFileLines |-> <<DIGITS[k], NL>>]

\* The terms of a line specification: indices from the start and the end,
\* one past the end, and ranges with and without both bounds.
Terms ==
    {IntTerm(0), IntTerm(2), IntTerm(-1), IntTerm(NFileLines),
     SliceTerm(IntArg(2), IntArg(5)), SliceTerm(NoneArg, IntArg(2)),
     SliceTerm(IntArg(-2), NoneArg)}

InitTrunc ==
    /\ s = <<>>
    /\ path_location = "below"
    /\ ignore_missing_path = FALSE
    /\ on_unclosed = "omit_last_line"
    /\ result = NoResult
    /\ exc = "none"
    /\ written = <<>>
    /\ records = <<>>
    /\ format_location = "below"
    /\ code = <<>>
    /\ phase = "spec"
    /\ line_spec \in {[form |-> f, terms |-> <<>>] : f \in {"single", "double"}}

\* The line specification gains a term.
AddTerm(term) ==
    /\ phase = "spec"
    /\ Len(line_spec.terms) < MaxTerms
    /\ line_spec' = [line_spec EXCEPT !.terms = Append(@, term)]
    /\ UNCHANGED <<s, phase, path_location, ignore_missing_path, on_unclosed, result,
                   exc, written, records, format_location, code>>

\* dir2md([file_path + line_spec], no_glob = True, path_location = loc)
Dir2md(loc) ==
    /\ phase = "spec"
    /\ LET r == dir2md(PATH_py, FileLines, line_spec, loc)
       IN  /\ exc' = r.exc
           /\ code' = r.code
           /\ s' = r.output
    /\ format_location' = loc
    /\ phase' = "embedded"
    /\ UNCHANGED <<path_location, ignore_missing_path, on_unclosed, result, written,
                   records, line_spec>>

\* A file argument with a line specification, embedded by dir2md.
NextTrunc ==
    \/ \E term \in Terms : AddTerm(term)
    \/ \E loc \in PathLocations : Dir2md(loc)

SpecTrunc == InitTrunc /\ [][NextTrunc]_vars

(* ------------------------------------------------------------------ *)
(* The fenced blocks of a document, for the properties                 *)
(* ------------------------------------------------------------------ *)

\* The 0-based indices of the opening fence lines, in document order.
RECURSIVE BlockStarts(_, _)
BlockStarts(lines, i) ==
    IF i >= Len(lines) THEN <<>>
    ELSE IF StartsWith(lines[i + 1], FENCE3)
    THEN <<i>> \o BlockStarts(lines, scan_close(lines, i + 1, fence_ticks(lines[i + 1])))
    ELSE BlockStarts(lines, i + 1)

\* A line after the opening fence at start begins with at least its ticks.
BlockClosed(lines, start) ==
    \E j \in (start + 2)..Len(lines) : StartsWith(lines[j], fence_ticks(lines[start + 1]))

\* The first inner line of the block at start is "<comment prefix> <path>".
PathBelow(lines, start) ==
    LET prefix == comment_prefix_for_language(fence_language(lines[start + 1]))
    IN  /\ start + 2 <= Len(lines)
        /\ ~StartsWith(lines[start + 2], fence_ticks(lines[start + 1]))
        /\ StartsWith(lines[start + 2], prefix \o <<" ">>)
        /\ strip(SubSeq(lines[start + 2], Len(prefix) + 2, Len(lines[start + 2]))) # <<>>

\* No path line above: the fence opens the document or follows an empty line.
NoPathAbove(lines, start) == start = 0 \/ lines[start] = <<>>

DocBlocks == BlockStarts(splitlines(s), 0)

(* ------------------------------------------------------------------ *)
(* Properties of default_parser on documents of free lines (Spec)      *)
(* ------------------------------------------------------------------ *)

\* C3: with ignore_missing_path = true the parser returns only blocks whose
\* path resolved, so no returned record has an empty path.
C3_UnresolvedBlocksDropped ==
    (phase = "parsed" /\ ignore_missing_path /\ exc = "none")
        => \A k \in 1..Len(result.code_blocks) : result.code_blocks[k].path # <<>>

\* C4: default_parser returns last_code_block_is_unclosed = true exactly when
\* the last fenced block of the document has no closing fence line.
C4_UnclosedFlagged ==
    (phase = "parsed" /\ exc = "none")
        => (result.last_code_block_is_unclosed
              <=> /\ DocBlocks # <<>>
                  /\ ~BlockClosed(splitlines(s), DocBlocks[Len(DocBlocks)]))

\* C8: a block whose first inner line is "<comment prefix> <path>" and that
\* has no path line above it gets, under path_location = "above", the record
\* (path and text) that path_location = "below" gives it.
C8_AboveFallsBackToBelow ==
    (phase = "parsed" /\ path_location = "above")
        => LET lines == splitlines(s)
               below == default_parser(s, DefaultField, "below", ignore_missing_path)
           IN  \A k \in 1..Len(DocBlocks) :
                   (/\ PathBelow(lines, DocBlocks[k])
                    /\ NoPathAbove(lines, DocBlocks[k])
                    /\ k <= Len(below.code_blocks))
                       => /\ k <= Len(result.code_blocks)
                          /\ result.code_blocks[k] = below.code_blocks[k]

\* A block after an empty line resolved from its first inner line under "above".
C8_Witness ==
    /\ phase = "parsed"
    /\ path_location = "above"
    /\ exc = "none"
    /\ \E k \in 1..Len(DocBlocks) :
           /\ DocBlocks[k] > 0
           /\ PathBelow(splitlines(s), DocBlocks[k])
           /\ NoPathAbove(splitlines(s), DocBlocks[k])
           /\ k <= Len(result.code_blocks)
           /\ result.code_blocks[k].path = LINE_path

(* ------------------------------------------------------------------ *)
(* Properties of md2dir on documents of free lines (SpecMd)            *)
(* ------------------------------------------------------------------ *)

\* The records default_parser collects when it skips over missing paths.
BlocksIgnoringMissing ==
    parse_locals(s, DefaultField, path_location, TRUE).code_blocks

\* Some fenced block of the document has no resolvable path.
SomeBlockUnresolved ==
    \E k \in 1..Len(BlocksIgnoringMissing) : BlocksIgnoringMissing[k].path = <<>>

\* C7: with ignore_missing_path = false a block without a resolvable path
\* makes default_parser raise and return no record, and md2dir writes no
\* file, not even those of the resolved blocks before it.
C7_MissingPathWritesNothing ==
    (phase = "written" /\ ~ignore_missing_path /\ SomeBlockUnresolved)
        => /\ exc \in {"ValueError", "IndexError"}
           /\ result.code_blocks = <<>>
           /\ written = <<>>

\* md2dir raised at an unresolved block that follows a resolved one.
C7_Witness ==
    /\ phase = "written"
    /\ ~ignore_missing_path
    /\ exc # "none"
    /\ Len(BlocksIgnoringMissing) >= 2
    /\ BlocksIgnoringMissing[1].path = LINE_path
    /\ BlocksIgnoringMissing[2].path = <<>>

\* The text md2dir should hand on for the unclosed block at start whose first
\* inner line is its path: the lines after the path line, the last one dropped.
OmitLastLineText(lines, start) ==
    LET body == SubSeq(lines, start + 3, Len(lines))
    IN  join(<<NL>>, SubSeq(body, 1, Len(body) - 1))

\* C5: when the final block is unclosed and has a resolvable path (here: every
\* block has its path as first inner line and none above), md2dir with
\* on_unclosed = "omit_last_line" completes and hands the writer, as the last
\* record, that block's captured text without its final line.
C5_OmitLastLine ==
    LET lines == splitlines(s)
        last  == DocBlocks[Len(DocBlocks)]
    IN  (/\ phase = "written"
         /\ on_unclosed = "omit_last_line"
         /\ DocBlocks # <<>>
         /\ ~BlockClosed(lines, last)
         /\ \A k \in 1..Len(DocBlocks) :
                PathBelow(lines, DocBlocks[k]) /\ NoPathAbove(lines, DocBlocks[k]))
            => /\ exc = "none"
               /\ Len(written) = Len(DocBlocks)
               /\ written[Len(written)].path = LINE_path
               /\ normalize_newline(written[Len(written)].text)
                     = normalize_newline(OmitLastLineText(lines, last))

(* ------------------------------------------------------------------ *)
(* Properties of default_formatter and the round trip (SpecRT)         *)
(* ------------------------------------------------------------------ *)

\* C1: parsing, with the path location of the formatter, the concatenation of
\* default_formatter over the records returns one record per input record, in
\* order, with the same path and the same text up to a final newline.
C1_RoundTrip ==
    (phase = "parsed" /\ path_location = format_location)
        => /\ exc = "none"
           /\ Len(result.code_blocks) = Len(records)
           /\ \A k \in 1..Len(records) :
                  /\ result.code_blocks[k].path = records[k].path
                  /\ normalize_newline(result.code_blocks[k].text) = records[k].text

\* The number of backticks a line starts with.
TickRun(line) == Len(line) - Len(lstrip_ticks(line))

\* The opening fence line default_formatter writes for a record.
OpeningLine(record, loc) ==
    splitlines(default_formatter(record, loc))[IF loc = "above" THEN 3 ELSE 1]

\* The closing fence line default_formatter writes for a record.
ClosingLine(record, loc) ==
    LET out == splitlines(default_formatter(record, loc))
    IN  out[Len(out) - 1]

\* A line of the text is n >= 3 backticks after optional leading whitespace.
TickLines(text) ==
    {Len(lstrip(l)) : l \in {splitlines(text)[k] : k \in 1..Len(splitlines(text))}
                       \cap {l \in {splitlines(text)[k] : k \in 1..Len(splitlines(text))} :
                               /\ Len(lstrip(l)) >= 3
                               /\ lstrip_ticks(lstrip(l)) = <<>>}}

\* C2: when a line of a record's text is exactly n >= 3 backticks, the opening
\* and closing fence written for it have more than n backticks.
C2_FenceLongerThanContent ==
    (phase = "input")
        => \A k \in 1..Len(records) : \A n \in TickLines(records[k].text) :
               /\ TickRun(OpeningLine(records[k], format_location)) > n
               /\ TickRun(ClosingLine(records[k], format_location)) > n

\* No line of the text starts, after optional whitespace, with three backticks.
NoFenceLine(text) ==
    \A k \in 1..Len(splitlines(text)) : ~StartsWith(lstrip(splitlines(text)[k]), FENCE3)

\* C9: one record with a language tag and a fence-free body, written in the
\* above layout (path, blank line, fence, body, fence, blank line), parses
\* without error to one record with that path and that body.
C9_AboveLayoutParses ==
    (/\ phase = "parsed"
     /\ format_location = "above"
     /\ Len(records) = 1
     /\ infer_language(records[1].path) # <<>>
     /\ NoFenceLine(records[1].text))
        => /\ exc = "none"
           /\ Len(result.code_blocks) = 1
           /\ result.code_blocks[1].path = records[1].path
           /\ normalize_newline(result.code_blocks[1].text) = records[1].text

(* ------------------------------------------------------------------ *)
(* Properties of default_parser on documents of blocks (SpecBlocks)    *)
(* ------------------------------------------------------------------ *)

\* C10: a document of closed python and rust blocks, each with its commented
\* path as first inner line, parses with the default arguments to one record
\* per block, in order, with that path and the block's remaining inner lines
\* as text (compared up to a final newline).
C10_BelowRuleInOrder ==
    (phase = "parsed")
        => /\ exc = "none"
           /\ Len(result.code_blocks) = Len(records)
           /\ \A k \in 1..Len(records) :
                  /\ result.code_blocks[k].path = records[k].path
                  /\ normalize_newline(result.code_blocks[k].text)
                        = normalize_newline(records[k].text)

(* ------------------------------------------------------------------ *)
(* Properties of the line specification of dir2md (SpecTrunc)          *)
(* ------------------------------------------------------------------ *)

\* The lines one term selects: line i for an integer i in range, the lines
\* start..end-1 for a range.
Fragment(lines, term) ==
    IF term.kind = "int"
    THEN LET i == term.a.v
         IN  IF i >= Len(lines) \/ i < -Len(lines) THEN <<>>
             ELSE <<lines[(IF i < 0 THEN Len(lines) + i ELSE i) + 1]>>
    ELSE PySlice(lines, IF term.a.t = "None" THEN 0 ELSE term.a.v,
                        IF term.b.t = "None" THEN Len(lines) ELSE term.b.v)

\* C6: for a bracketed specification [t1, ..., tk], k >= 1, the embedded text
\* is the concatenation, in order, of the fragment of each term.
C6_FragmentsInSpecOrder ==
    (phase = "embedded" /\ line_spec.form = "single" /\ Len(line_spec.terms) >= 1)
        => /\ exc = "none"
           /\ code = normalize_newline(
                  concat([k \in 1..Len(line_spec.terms) |->
                             concat(Fragment(FileLines, line_spec.terms[k]))]))

(* ------------------------------------------------------------------ *)
(* Properties of fence matching in default_parser (SpecFence)          *)
(* ------------------------------------------------------------------ *)

\* The blocks of a document read from line i (1-based) on: a block opens at
\* the first line with a run of n >= 3 backticks and closes at the first later
\* line with a run of at least n; close = 0 when no later line closes it.  The
\* search for the next opening line resumes after the closing line.
RECURSIVE FenceSpans(_, _)
FenceSpans(lines, i) ==
    IF i > Len(lines) THEN <<>>
    ELSE IF TickRun(lines[i]) < 3 THEN FenceSpans(lines, i + 1)
    ELSE LET closers == {j \in (i + 1)..Len(lines) : TickRun(lines[j]) >= TickRun(lines[i])}
         IN  IF closers = {} THEN <<[open |-> i, close |-> 0]>>
             ELSE LET c == CHOOSE j \in closers : \A j2 \in closers : j <= j2
                  IN  <<[open |-> i, close |-> c]>> \o FenceSpans(lines, c + 1)

\* The lines strictly between the opening and the closing line of a span.
InnerLines(lines, span) == SubSeq(lines, span.open + 1, span.close - 1)

====
